---- MODULE Spec2Model ----
(***************************************************************************)
(* A model of desktop_clock.py: the DesktopClock widget.  The constructor  *)
(* is modelled block by block, the Tk event loop as one action per bound   *)
(* event (<ButtonPress-1>, <B1-Motion>, <Button-3>), one for the `after`   *)
(* timer callback (_update_time) and one for the passage of time.          *)
(*                                                                         *)
(* Time is the value of time.perf_counter_ns(), in nanoseconds.  The wall  *)
(* clock read by datetime.now() runs at the same rate: it shows wall_epoch *)
(* when the monotonic clock shows 0.                                       *)
(***************************************************************************)
EXTENDS Integers, Sequences, FiniteSets, TLC

VARIABLES
    pc,          \* position of the program: a block of __init__, "mainloop", "exited", "failed"
    platform,    \* sys.platform
    now_ns,      \* the host's monotonic clock, time.perf_counter_ns()
    wall_epoch,  \* the host's local time when the monotonic clock shows 0
    screen_w,    \* root.winfo_screenwidth()
    root,        \* the top-level window: "none", "live" or "destroyed"
    attrs,       \* window-manager attributes of root: topmost, overrideredirect, level
    family,      \* the family of time_font and ms_font ("" before the fonts are made)
    hhmmss,      \* text of the hhmmss label
    dot,         \* text of the dot label
    mmm,         \* text of the mmm label
    drag_data,   \* self._drag_data, <<x, y>>
    geom,        \* geometry of root: [w, h, x, y]
    after,       \* pending `after` timers: the sequence of their deadlines (ns)
    sched,       \* locals of the last _schedule_next_tick call (<<>> before the first)
    ticks,       \* how many times _update_time has run
    stdout,      \* the diagnostics printed so far
    tries,       \* how many times each optional enhancement was attempted
    mouse,       \* the pointer's screen position <<x_root, y_root>>
    b1           \* whether the primary button is held down

vars == <<pc, platform, now_ns, wall_epoch, screen_w, root, attrs, family, hhmmss,
          dot, mmm, drag_data, geom, after, sched, ticks, stdout, tries, mouse, b1>>

-----------------------------------------------------------------------------
(* Program constants *)

UPDATE_INTERVAL_MS == 16

NsPerMs == 1000000

UsPerSecond == 1000 * 1000

SecondsPerDay == 24 * 60 * 60

interval_ns == UPDATE_INTERVAL_MS * NsPerMs

SizePadW == 30

SizePadH == 20

EdgeOffset == 40

-----------------------------------------------------------------------------
(* Bounds of the model *)

\* the program starts on a multiple of half a millisecond
Granule == NsPerMs \div 2

\* while the event loop waits the clocks advance in steps of a millisecond
Step == NsPerMs

\* the monotonic clock is followed for MaxSteps steps
MaxSteps == 34

MaxTime == MaxSteps * Step

\* the program starts within the first MaxStart half-milliseconds
MaxStart == 1

StartTimes == { k * Granule : k \in 0..MaxStart }

\* the event loop dispatches a due timer at most MaxLate steps late
MaxLate == 1

\* the pointer stays within MaxReach pixels of the window's first position
MaxReach == 1

\* the width of the primary screen
ScreenWidth == 100

Platforms == {"darwin", "linux"}

\* the local time of day at monotonic time 0: 23:59:59.984, one tick interval
\* before the second, the minute, the hour and the day roll over
WallEpochs == { [sod |-> 86399, us |-> 984000] }

\* points of the window (relative to its top-left corner) where the button is pressed
Offsets == { <<0, 0>>, <<1, 0>> }

\* pointer movements between two motion events
Deltas == { <<1, 1>>, <<-1, -1>> }

-----------------------------------------------------------------------------
(* Helpers *)

Max(a, b) == IF a >= b THEN a ELSE b

Abs(a) == IF a >= 0 THEN a ELSE -a

DigitChars == <<"0", "1", "2", "3", "4", "5", "6", "7", "8", "9">>

Digit(d) == DigitChars[d + 1]

RECURSIVE Decimal(_)
\* the decimal digits of n >= 0, most significant first
Decimal(n) == IF n < 10 THEN <<Digit(n)>> ELSE Decimal(n \div 10) \o <<Digit(n % 10)>>

RECURSIVE Zeros(_)
Zeros(k) == IF k <= 0 THEN <<>> ELSE <<"0">> \o Zeros(k - 1)

\* f"{n:03d}": the decimal digits of n, zero-padded on the left to at least 3
Format03d(n) == Zeros(3 - Len(Decimal(n))) \o Decimal(n)

\* a strftime field %H, %M or %S: two zero-padded digits
TwoDigits(n) == <<Digit((n \div 10) % 10), Digit(n % 10)>>

\* now.strftime("%H:%M:%S")
StrfHMS(dt) ==
    TwoDigits(dt.hour) \o <<":">> \o TwoDigits(dt.minute) \o <<":">> \o TwoDigits(dt.second)

\* a variant that rounds to the nearest millisecond
MsFieldRounded(us) == (us + 500) \div 1000

\* int(now.microsecond/1000): the float quotient truncated; for 0 <= us < 10^6
\* the float quotient is within 10^-12 of us/1000, so the truncation is the
\* integer quotient
MsField(us) == us \div 1000

\* datetime.now() when the monotonic clock shows t
DatetimeNow(epoch, t) ==
    LET total == epoch.us + t \div 1000
        sod   == (epoch.sod + total \div UsPerSecond) % SecondsPerDay
    IN  [hour |-> sod \div 3600, minute |-> (sod \div 60) % 60, second |-> sod % 60,
         microsecond |-> total % UsPerSecond]

\* winfo_reqwidth / winfo_reqheight of the three labels, a function of the font
LabelMetrics(fam) ==
    IF fam = "JetBrains Mono"
    THEN [w1 |-> 9, w2 |-> 1, w3 |-> 4, h1 |-> 4, h3 |-> 2]
    ELSE [w1 |-> 8, w2 |-> 2, w3 |-> 3, h1 |-> 3, h3 |-> 5]

-----------------------------------------------------------------------------
(* _schedule_next_tick *)

\* a variant that rounds the timestamp up, leaving a multiple where it is
NextTickCeil(t) == ((t + interval_ns - 1) \div interval_ns) * interval_ns

\* a variant that schedules one interval from now
NextTickFromNow(t) == t + interval_ns

NextTickNs(t) == ((t \div interval_ns) + 1) * interval_ns

\* a variant without the lower limit of 1 ms
DelayMsUnclamped(t) == (((t \div interval_ns) + 1) * interval_ns - t) \div NsPerMs

\* int((next_tick_ns - now_ns) / 1_000_000) truncates; max(1, ...)
DelayMs(t) == Max(1, (NextTickNs(t) - t) \div NsPerMs)

\* the locals of a call of _schedule_next_tick at time t
ScheduleLocals(t) ==
    [now_ns |-> t, next_tick_ns |-> NextTickNs(t), delay_ms |-> DelayMs(t)]

\* root.after(delay_ms, self._update_time): the timer is due delay_ms later
AfterDeadline(t) == t + DelayMs(t) * NsPerMs

\* the timers _schedule_next_tick adds at time t
Scheduled(t) == <<AfterDeadline(t)>>

-----------------------------------------------------------------------------
Init ==
    /\ pc = "start"
    /\ platform \in Platforms
    /\ now_ns \in StartTimes
    /\ wall_epoch \in WallEpochs
    /\ screen_w = ScreenWidth
    /\ root = "none"
    /\ attrs = [topmost |-> FALSE, overrideredirect |-> FALSE, level |-> "normal"]
    /\ family = ""
    /\ hhmmss = <<>>
    /\ dot = <<>>
    /\ mmm = <<>>
    /\ drag_data = <<0, 0>>
    /\ geom = [w |-> 1, h |-> 1, x |-> 0, y |-> 0]
    /\ after = <<>>
    /\ sched = <<>>
    /\ ticks = 0
    /\ stdout = <<>>
    /\ tries = [topmost |-> 0, font |-> 0, floating |-> 0]
    /\ mouse = <<0, 0>>
    /\ b1 = FALSE

-----------------------------------------------------------------------------
(* DesktopClock.__init__, block by block *)

\* tk.Tk(), title, configure: a failure here is not caught and the program
\* fails to start
CreateRoot(ok) ==
    /\ pc = "start"
    /\ root' = IF ok THEN "live" ELSE "none"
    /\ pc' = IF ok THEN "topmost" ELSE "failed"
    /\ UNCHANGED <<platform, now_ns, wall_epoch, screen_w, attrs, family, hhmmss, dot, mmm,
                   drag_data, geom, after, sched, ticks, stdout, tries, mouse, b1>>

\* try: root.attributes("-topmost", True) except Exception: pass
SetTopmost(ok) ==
    /\ pc = "topmost"
    /\ tries' = [tries EXCEPT !.topmost = @ + 1]
    /\ attrs' = [attrs EXCEPT !.topmost = ok]
    /\ pc' = "decor"
    /\ UNCHANGED <<platform, now_ns, wall_epoch, screen_w, root, family, hhmmss, dot, mmm,
                   drag_data, geom, after, sched, ticks, stdout, mouse, b1>>

\* try: root.overrideredirect(True) except Exception: pass
SetOverrideRedirect(ok) ==
    /\ pc = "decor"
    /\ attrs' = [attrs EXCEPT !.overrideredirect = ok]
    /\ pc' = "fonts"
    /\ UNCHANGED <<platform, now_ns, wall_epoch, screen_w, root, family, hhmmss, dot, mmm,
                   drag_data, geom, after, sched, ticks, stdout, tries, mouse, b1>>

\* a variant that does not catch the failure of a font constructor
LoadFontsUncaught(ok_time, ok_ms) ==
    /\ pc = "fonts"
    /\ tries' = [tries EXCEPT !.font = @ + 1]
    /\ family' = IF ok_time /\ ok_ms THEN "JetBrains Mono" ELSE family
    /\ pc' = IF ok_time /\ ok_ms THEN "labels" ELSE "failed"
    /\ UNCHANGED <<platform, now_ns, wall_epoch, screen_w, root, attrs, hhmmss, dot, mmm,
                   drag_data, geom, after, sched, ticks, stdout, mouse, b1>>

\* the two fonts of the preferred family; if either constructor raises, both
\* fonts are made of the fallback family
LoadFonts(ok_time, ok_ms) ==
    /\ pc = "fonts"
    /\ tries' = [tries EXCEPT !.font = @ + 1]
    /\ family' = IF ok_time /\ ok_ms THEN "JetBrains Mono" ELSE "Courier"
    /\ pc' = "labels"
    /\ UNCHANGED <<platform, now_ns, wall_epoch, screen_w, root, attrs, hhmmss, dot, mmm,
                   drag_data, geom, after, sched, ticks, stdout, mouse, b1>>

\* the three labels with their first texts, _drag_data and the event bindings
CreateLabels ==
    /\ pc = "labels"
    /\ hhmmss' = <<"0", "0", ":", "0", "0", ":", "0", "0">>
    /\ dot' = <<".">>
    /\ mmm' = <<"0", "0", "0">>
    /\ drag_data' = <<0, 0>>
    /\ pc' = "place"
    /\ UNCHANGED <<platform, now_ns, wall_epoch, screen_w, root, attrs, family, geom,
                   after, sched, ticks, stdout, tries, mouse, b1>>

\* the geometry string f"{w}x{h}+{sw - w - 40}+40"
StartGeometry(m, sw) ==
    LET w == m.w1 + m.w2 + m.w3 + SizePadW
        h == Max(m.h1, m.h3) + SizePadH
    IN  [w |-> w, h |-> h, x |-> sw - w - EdgeOffset, y |-> EdgeOffset]

PlaceWindow ==
    /\ pc = "place"
    /\ geom' = StartGeometry(LabelMetrics(family), screen_w)
    /\ pc' = "floating"
    /\ UNCHANGED <<platform, now_ns, wall_epoch, screen_w, root, attrs, family, hhmmss,
                   dot, mmm, drag_data, after, sched, ticks, stdout, tries, mouse, b1>>

\* if sys.platform == "darwin": self._make_macos_floating(); the import, the
\* window lookup or setLevel_ may raise, and either way one line is printed
MakeMacosFloating(ok) ==
    /\ pc = "floating"
    /\ platform = "darwin"
    /\ tries' = [tries EXCEPT !.floating = @ + 1]
    /\ attrs' = [attrs EXCEPT !.level = IF ok THEN "floating" ELSE @]
    /\ stdout' = Append(stdout, IF ok THEN "elevated" ELSE "failed")
    /\ pc' = "cycle"
    /\ UNCHANGED <<platform, now_ns, wall_epoch, screen_w, root, family, hhmmss, dot, mmm,
                   drag_data, geom, after, sched, ticks, mouse, b1>>

SkipFloating ==
    /\ pc = "floating"
    /\ platform # "darwin"
    /\ pc' = "cycle"
    /\ UNCHANGED <<platform, now_ns, wall_epoch, screen_w, root, attrs, family, hhmmss,
                   dot, mmm, drag_data, geom, after, sched, ticks, stdout, tries, mouse, b1>>

\* self._schedule_next_tick() at the end of __init__, then run() enters mainloop
StartCycle ==
    /\ pc = "cycle"
    /\ sched' = ScheduleLocals(now_ns)
    /\ after' = after \o Scheduled(now_ns)
    /\ pc' = "mainloop"
    /\ UNCHANGED <<platform, now_ns, wall_epoch, screen_w, root, attrs, family, hhmmss,
                   dot, mmm, drag_data, geom, ticks, stdout, tries, mouse, b1>>

-----------------------------------------------------------------------------
(* The event loop *)

\* mainloop dispatches events while the root window exists
Dispatching == pc = "mainloop" /\ root = "live"

\* the window's first position, and the pointer positions the model follows
FirstPos == <<screen_w - geom.w - EdgeOffset, EdgeOffset>>

InReach(p) == Abs(p[1] - FirstPos[1]) <= MaxReach /\ Abs(p[2] - FirstPos[2]) <= MaxReach

\* _on_start_move: the offset of the press point from the window's top-left
StartMoveData(ev, g) == <<ev[1] - g.x, ev[2] - g.y>>

\* a variant that puts the window's corner under the pointer
MovePositionNoOffset(ev, d) == <<ev[1], ev[2]>>

\* _on_move: the window's new top-left
MovePosition(ev, d) == <<ev[1] - d[1], ev[2] - d[2]>>

\* <ButtonPress-1> at the point off of the window
Press(off) ==
    /\ Dispatching
    /\ ~b1
    /\ LET p == <<geom.x + off[1], geom.y + off[2]>> IN
        /\ InReach(p)
        /\ mouse' = p
        /\ drag_data' = StartMoveData(p, geom)
    /\ b1' = TRUE
    /\ UNCHANGED <<pc, platform, now_ns, wall_epoch, screen_w, root, attrs, family, hhmmss,
                   dot, mmm, geom, after, sched, ticks, stdout, tries>>

\* a variant whose geometry string also sets a size, that of an empty window
MotionResizing(d) ==
    /\ Dispatching
    /\ b1
    /\ LET c == <<mouse[1] + d[1], mouse[2] + d[2]>>
           to == MovePosition(c, drag_data) IN
        /\ InReach(c)
        /\ mouse' = c
        /\ geom' = [w |-> 1, h |-> 1, x |-> to[1], y |-> to[2]]
    /\ UNCHANGED <<pc, platform, now_ns, wall_epoch, screen_w, root, attrs, family, hhmmss,
                   dot, mmm, drag_data, after, sched, ticks, stdout, tries, b1>>

\* <B1-Motion>: the pointer moves by d with the button held
Motion(d) ==
    /\ Dispatching
    /\ b1
    /\ LET c == <<mouse[1] + d[1], mouse[2] + d[2]>>
           to == MovePosition(c, drag_data) IN
        /\ InReach(c)
        /\ mouse' = c
        /\ geom' = [geom EXCEPT !.x = to[1], !.y = to[2]]
    /\ UNCHANGED <<pc, platform, now_ns, wall_epoch, screen_w, root, attrs, family, hhmmss,
                   dot, mmm, drag_data, after, sched, ticks, stdout, tries, b1>>

\* the button is released: no handler is bound
Release ==
    /\ Dispatching
    /\ b1
    /\ b1' = FALSE
    /\ UNCHANGED <<pc, platform, now_ns, wall_epoch, screen_w, root, attrs, family, hhmmss,
                   dot, mmm, drag_data, geom, after, sched, ticks, stdout, tries, mouse>>

\* a variant that hides the window instead of destroying it
Button3Withdraw ==
    /\ Dispatching
    /\ root' = "withdrawn"
    /\ UNCHANGED <<pc, platform, now_ns, wall_epoch, screen_w, attrs, family, hhmmss, dot, mmm,
                   drag_data, geom, after, sched, ticks, stdout, tries, mouse, b1>>

\* <Button-3>: root.destroy(); with no window left mainloop returns, run()
\* returns and the process ends.  The pending timer is not cancelled: it is
\* never dispatched
Button3 ==
    /\ Dispatching
    /\ root' = "destroyed"
    /\ pc' = "exited"
    /\ UNCHANGED <<platform, now_ns, wall_epoch, screen_w, attrs, family, hhmmss, dot, mmm,
                   drag_data, geom, after, sched, ticks, stdout, tries, mouse, b1>>

\* KeyboardInterrupt out of mainloop: run() swallows it and returns, and the
\* process ends without the window having been destroyed by the program
Interrupt ==
    /\ Dispatching
    /\ pc' = "exited"
    /\ UNCHANGED <<platform, now_ns, wall_epoch, screen_w, root, attrs, family, hhmmss, dot,
                   mmm, drag_data, geom, after, sched, ticks, stdout, tries, mouse, b1>>

\* the sequence s without its i-th element
Without(s, i) == SubSeq(s, 1, i - 1) \o SubSeq(s, i + 1, Len(s))

\* a variant that does not update the millisecond label
UpdateTimeStaleMs(i) ==
    /\ Dispatching
    /\ i \in 1..Len(after)
    /\ after[i] <= now_ns
    /\ hhmmss' = StrfHMS(DatetimeNow(wall_epoch, now_ns))
    /\ sched' = ScheduleLocals(now_ns)
    /\ after' = Without(after, i) \o Scheduled(now_ns)
    /\ ticks' = ticks + 1
    /\ UNCHANGED <<pc, platform, now_ns, wall_epoch, screen_w, root, attrs, family, dot, mmm,
                   drag_data, geom, stdout, tries, mouse, b1>>

\* a variant that does not schedule the following tick
UpdateTimeOnce(i) ==
    /\ Dispatching
    /\ i \in 1..Len(after)
    /\ after[i] <= now_ns
    /\ LET now == DatetimeNow(wall_epoch, now_ns) IN
        /\ hhmmss' = StrfHMS(now)
        /\ mmm' = Format03d(MsField(now.microsecond))
    /\ after' = Without(after, i)
    /\ ticks' = ticks + 1
    /\ UNCHANGED <<pc, platform, now_ns, wall_epoch, screen_w, root, attrs, family, dot,
                   drag_data, geom, sched, stdout, tries, mouse, b1>>

\* a due timer fires: _update_time, which ends in _schedule_next_tick
UpdateTime(i) ==
    /\ Dispatching
    /\ i \in 1..Len(after)
    /\ after[i] <= now_ns
    /\ LET now == DatetimeNow(wall_epoch, now_ns) IN
        /\ hhmmss' = StrfHMS(now)
        /\ mmm' = Format03d(MsField(now.microsecond))
    /\ sched' = ScheduleLocals(now_ns)
    /\ after' = Without(after, i) \o Scheduled(now_ns)
    /\ ticks' = ticks + 1
    /\ UNCHANGED <<pc, platform, now_ns, wall_epoch, screen_w, root, attrs, family, dot,
                   drag_data, geom, stdout, tries, mouse, b1>>

Tick == \E i \in 1..Len(after) : UpdateTime(i)

\* whether the event loop may still be waiting: no timer is more than `late`
\* steps overdue
MayWait(late) == \A i \in 1..Len(after) : now_ns < after[i] + late * Step

\* the clocks advance by one step while the event loop waits
Wait(late) ==
    /\ Dispatching
    /\ now_ns < MaxTime
    /\ MayWait(late)
    /\ now_ns' = now_ns + Step
    /\ UNCHANGED <<pc, platform, wall_epoch, screen_w, root, attrs, family, hhmmss, dot, mmm,
                   drag_data, geom, after, sched, ticks, stdout, tries, mouse, b1>>

\* a timer is dispatched up to MaxLate steps after it is due
Advance == Wait(MaxLate)

\* a timer is dispatched the moment it is due
AdvanceExact == Wait(0)

Construct ==
    \/ \E ok \in BOOLEAN : CreateRoot(ok)
    \/ \E ok \in BOOLEAN : SetTopmost(ok)
    \/ \E ok \in BOOLEAN : SetOverrideRedirect(ok)
    \/ \E ok_time, ok_ms \in BOOLEAN : LoadFonts(ok_time, ok_ms)
    \/ CreateLabels
    \/ PlaceWindow
    \/ \E ok \in BOOLEAN : MakeMacosFloating(ok)
    \/ SkipFloating
    \/ StartCycle

Events ==
    \/ \E off \in Offsets : Press(off)
    \/ \E d \in Deltas : Motion(d)
    \/ Release
    \/ Button3
    \/ Interrupt
    \/ Tick

Next == Construct \/ Events \/ Advance

NextExact == Construct \/ Events \/ AdvanceExact

Spec == Init /\ [][Next]_vars

\* the event loop dispatches a due timer and the clocks keep running
FairSpec == Spec /\ WF_vars(Tick) /\ WF_vars(Advance)

\* the timer primitive fires exactly `delay_ms` after it is set
SpecExact == Init /\ [][NextExact]_vars

-----------------------------------------------------------------------------
(* Properties *)

Running == pc = "mainloop"

Placeholder == hhmmss = <<"0", "0", ":", "0", "0", ":", "0", "0">> /\ mmm = <<"0", "0", "0">>

\* the display shows the host clock's reading at monotonic time t
Shows(t) ==
    LET dt == DatetimeNow(wall_epoch, t) IN
        /\ hhmmss = StrfHMS(dt)
        /\ mmm = Format03d(MsField(dt.microsecond))

\* C1: while the primary button is held, the offset is the one recorded at the
\* press (the press point minus the window's top-left at that moment), no step
\* changes it, and after every step (motion or tick) the window's top-left is
\* the pointer's position minus that offset.
C1_DragStep ==
    /\ (~b1 /\ b1') => drag_data' = <<mouse'[1] - geom.x, mouse'[2] - geom.y>>
    /\ (b1 /\ b1') =>
          /\ drag_data' = drag_data
          /\ geom'.x = mouse'[1] - drag_data[1]
          /\ geom'.y = mouse'[2] - drag_data[2]

C1_DragInvariant == [][C1_DragStep]_vars

\* C1 witness: a drag in progress that has moved the window by a non-zero
\* offset, with ticks fired
C1_Witness ==
    /\ Running /\ b1 /\ ticks >= 2
    /\ drag_data = <<1, 0>>
    /\ <<geom.x, geom.y>> # FirstPos
    /\ geom.x = mouse[1] - 1

\* C2: a right-click is dispatched in every state of the event loop (idle or
\* dragging, a tick pending or due); it destroys the window and ends the
\* process, and from then on no step changes the display or the window's
\* geometry.
C2_Step ==
    /\ Button3 => (root' = "destroyed" /\ pc' = "exited")
    /\ root = "destroyed" => UNCHANGED <<hhmmss, dot, mmm, geom, ticks, pc, root>>

C2_Dismissal == [](Running => ENABLED Button3) /\ [][C2_Step]_vars

\* C2 witness: the window was destroyed during a drag while the pending tick
\* was already due
C2_Witness ==
    /\ root = "destroyed" /\ pc = "exited"
    /\ b1 /\ drag_data = <<1, 0>>
    /\ Len(after) = 1 /\ after[1] <= now_ns

\* the clock readings no older than one tick interval
RecentTimes == { t \in { now_ns - k * Granule : k \in 0..(interval_ns \div Granule) } : t >= 0 }

\* C3 as stated: in every state of the running program the display shows a
\* reading of the host clock no older than one tick interval.
C3_Original == Running => \E t \in RecentTimes : Shows(t)

\* C3 as amended: until the tick handler has first run the display shows the
\* placeholder; from then on it shows the reading taken when the handler last
\* ran, which is older than one interval by no more than the lateness of the
\* timer's dispatch.
C3_Freshness ==
    Running =>
        IF ticks = 0
        THEN Placeholder
        ELSE /\ Shows(sched.now_ns)
             /\ sched.now_ns <= now_ns
             /\ now_ns - sched.now_ns <= interval_ns + MaxLate * Step

\* C3 witness: a reading a full interval and a late dispatch old is on display
C3_Witness ==
    /\ Running /\ ticks >= 1
    /\ now_ns - sched.now_ns = interval_ns + MaxLate * Step
    /\ Shows(sched.now_ns)

\* C4: the next tick computed by _schedule_next_tick is a multiple of the
\* interval, later than the timestamp it was computed from and at most one
\* interval later.
C4_TickAlignment ==
    sched # <<>> =>
        /\ sched.next_tick_ns % interval_ns = 0
        /\ sched.next_tick_ns > sched.now_ns
        /\ sched.next_tick_ns - sched.now_ns <= interval_ns

\* C4 witness: _schedule_next_tick has run on a timestamp that is a positive
\* multiple of the interval, and on one that is not
C4_Witness ==
    /\ sched # <<>>
    /\ sched.now_ns > 0
    /\ sched.now_ns % interval_ns = 0
    /\ sched.next_tick_ns = sched.now_ns + interval_ns

\* the pending tick can still become due within the time the model follows
InHorizon == Len(after) = 1 /\ after[1] <= MaxTime

\* C5: while the event loop runs exactly one tick is pending; every run of the
\* tick handler leaves exactly one pending; the loop is left only by the
\* right-click or the interrupt; and when due timers are dispatched and the
\* clock runs, every pending tick fires unless the program exits first.
C5_Step ==
    /\ ticks' # ticks => (ticks' = ticks + 1 /\ Len(after') = 1 /\ after'[1] > now_ns)
    /\ (Running /\ ~Running') => (Button3 \/ Interrupt)

C5_TickLoop ==
    /\ [](Running => Len(after) = 1)
    /\ [][C5_Step]_vars
    /\ (Running /\ InHorizon /\ ticks % 2 = 0) ~> (~Running \/ ticks % 2 = 1)
    /\ (Running /\ InHorizon /\ ticks % 2 = 1) ~> (~Running \/ ticks % 2 = 0)

\* C5 witness: the handler has run several times and a tick is pending again
C5_Witness == Running /\ ticks >= 3 /\ Len(after) = 1 /\ after[1] > now_ns

\* the three decimal digits of q, 0 <= q <= 999
ThreeDigits(q) == <<Digit(q \div 100), Digit((q \div 10) % 10), Digit(q % 10)>>

\* sub-second readings: every millisecond, at its start, middle and end
MicroSamples == { 1000 * k + r : k \in 0..999, r \in {0, 500, 999} }

\* C6: the millisecond field on display is the integer quotient of the
\* reading's microseconds by 1000, as exactly three zero-padded digits; 999500
\* shows 999 and 0 shows 000.  Checked of every reading the handler takes and,
\* of the formatting alone, of every sample of 0..999999.
C6_Milliseconds ==
    /\ ticks >= 1 =>
          LET u == DatetimeNow(wall_epoch, sched.now_ns).microsecond IN
              /\ Len(mmm) = 3
              /\ mmm = ThreeDigits(u \div 1000)
              /\ u = 999500 => mmm = <<"9", "9", "9">>
              /\ u = 0 => mmm = <<"0", "0", "0">>
    /\ pc = "start" =>
          \A u \in MicroSamples :
              /\ Len(Format03d(MsField(u))) = 3
              /\ Format03d(MsField(u)) = ThreeDigits(u \div 1000)

\* C6 witness: the handler has read 999500 microseconds
C6_Witness ==
    /\ ticks >= 1
    /\ DatetimeNow(wall_epoch, sched.now_ns).microsecond = 999500
    /\ mmm = <<"9", "9", "9">>

InitBlocks == {"topmost", "decor", "fonts", "labels", "place", "floating", "cycle"}

\* C7: whatever the outcome of the always-on-top call, the floating-level call
\* and the loading of the preferred fonts, the constructor never stops before
\* the event loop: the labels are made, the window is sized and placed and one
\* tick is scheduled.  Each is attempted once, the floating-level call on
\* darwin only, printing one line; the other two print nothing.
C7_Startup ==
    /\ pc = "failed" => (root = "none" /\ tries = [topmost |-> 0, font |-> 0, floating |-> 0])
    /\ pc \in InitBlocks => ENABLED Construct
    /\ tries.topmost <= 1 /\ tries.font <= 1 /\ tries.floating <= 1
    /\ Len(stdout) = tries.floating
    /\ tries.floating = 1 => platform = "darwin"
    /\ pc \in {"cycle", "mainloop"} =>
          /\ tries = [topmost |-> 1, font |-> 1, floating |-> IF platform = "darwin" THEN 1 ELSE 0]
          /\ family \in {"JetBrains Mono", "Courier"}
          /\ hhmmss # <<>> /\ dot = <<".">> /\ mmm # <<>>
          /\ geom.w = LabelMetrics(family).w1 + LabelMetrics(family).w2
                        + LabelMetrics(family).w3 + 30
          /\ geom.h = Max(LabelMetrics(family).h1, LabelMetrics(family).h3) + 20
    /\ pc = "cycle" => (geom.x = screen_w - geom.w - 40 /\ geom.y = 40)
    /\ Running => Len(after) = 1

\* C7 witness: the event loop runs although all three enhancements failed
C7_Witness ==
    /\ Running /\ platform = "darwin"
    /\ ~attrs.topmost /\ attrs.level = "normal" /\ family = "Courier"
    /\ stdout = <<"failed">>

\* C8: the tick handler leaves the window's geometry and the drag offset
\* alone; the press changes neither the geometry nor the display nor the
\* timers; the motion changes neither the window's size nor the drag offset nor
\* the display nor the timers; and the window keeps the size the constructor
\* gave it.
C8_Step ==
    /\ ticks' # ticks => UNCHANGED <<geom, drag_data, dot>>
    /\ (~b1 /\ b1') => UNCHANGED <<geom, hhmmss, dot, mmm, after, sched>>
    /\ (b1 /\ mouse' # mouse) =>
          /\ UNCHANGED <<drag_data, hhmmss, dot, mmm, after, sched>>
          /\ geom'.w = geom.w /\ geom'.h = geom.h
    /\ Running => (geom'.w = geom.w /\ geom'.h = geom.h)

C8_Frames ==
    /\ []((pc \in {"mainloop", "exited"}) =>
             /\ geom.w = StartGeometry(LabelMetrics(family), screen_w).w
             /\ geom.h = StartGeometry(LabelMetrics(family), screen_w).h)
    /\ [][C8_Step]_vars

\* C8 witness: presses, motions and ticks have all happened
C8_Witness ==
    /\ Running /\ ticks >= 2 /\ ~b1
    /\ drag_data = <<1, 0>>
    /\ geom.x = FirstPos[1] - 1 /\ geom.y = FirstPos[2] - 1

\* ceil(t / interval) * interval
CeilToInterval(t) == ((t + interval_ns - 1) \div interval_ns) * interval_ns

\* C9 as stated: the next tick is the timestamp rounded up to a multiple of the
\* interval.
C9_Original == sched # <<>> => sched.next_tick_ns = CeilToInterval(sched.now_ns)

\* C9 as amended: the next tick is the timestamp rounded up when the timestamp
\* is no multiple of the interval, and one interval later when it is one.
C9_NextMultiple ==
    sched # <<>> =>
        IF sched.now_ns % interval_ns = 0
        THEN sched.next_tick_ns = sched.now_ns + interval_ns
        ELSE sched.next_tick_ns = CeilToInterval(sched.now_ns)

\* C9 witness: the handler has scheduled from a timestamp that is a multiple of
\* the interval
C9_Witness ==
    /\ Running /\ ticks >= 1
    /\ sched.now_ns = interval_ns
    /\ sched.next_tick_ns = 2 * interval_ns

\* C10 as stated, of a timer that fires exactly when due: a tick fires no
\* earlier than the boundary it was scheduled for and less than an interval
\* after it, and the tick it schedules is for another boundary.
C10_OriginalStep ==
    ticks' # ticks =>
        /\ now_ns >= sched.next_tick_ns
        /\ now_ns < sched.next_tick_ns + interval_ns
        /\ sched'.next_tick_ns # sched.next_tick_ns

C10_Original == [][C10_OriginalStep]_vars

\* C10 as amended, of a timer that fires exactly when due: the delay is 1..16
\* ms; a tick fires less than a millisecond before or after the boundary it was
\* scheduled for; the tick it schedules is for the same boundary exactly when
\* it fired before that boundary, and for the following boundary otherwise.
C10_Step ==
    ticks' # ticks =>
        /\ sched.delay_ms \in 1..UPDATE_INTERVAL_MS
        /\ sched'.delay_ms \in 1..UPDATE_INTERVAL_MS
        /\ now_ns = sched.now_ns + sched.delay_ms * NsPerMs
        /\ Abs(now_ns - sched.next_tick_ns) < NsPerMs
        /\ sched'.next_tick_ns =
              IF now_ns < sched.next_tick_ns
              THEN sched.next_tick_ns
              ELSE sched.next_tick_ns + interval_ns

C10_Drift == [][C10_Step]_vars

\* C10 witness: a tick fired half a millisecond before its boundary and the
\* next tick is scheduled for the same boundary, one millisecond later
C10_Witness ==
    /\ Running /\ ticks = 1
    /\ sched.now_ns = interval_ns - Granule
    /\ sched.next_tick_ns = interval_ns
    /\ sched.delay_ms = 1

====
